---- MODULE Spec2Model ----
(***************************************************************************)
(* The STOMP Frame of src/esm5/frame.js: its constructor, the lazy body    *)
(* getters, Frame.fromRawFrame, serialize / serializeCmdAndHeaders and the *)
(* header value escaping.                                                  *)
(*                                                                         *)
(* A JavaScript string is a sequence of characters.  A character is a      *)
(* TLA+ string naming it; a few fixed words of the protocol (the commands, *)
(* "content-length") are kept as one element each.  A Uint8Array is a      *)
(* sequence of byte values.  A JavaScript value that may be undefined is a *)
(* sequence of length 0 (undefined) or 1 (the value).  An object used as a *)
(* map is the sequence of its <<key, value>> entries in Object.keys order. *)
(***************************************************************************)
EXTENDS Integers, Sequences, FiniteSets, TLC

VARIABLES
    str,        \* the argument of the last Frame.hdrValueEscape call
    escaped,    \* what Frame.hdrValueEscape returned (undefined before the call)
    unEscaped,  \* what Frame.hdrValueUnEscape returned for it
    frame,      \* the Frame object the caller holds (undefined before any)
    out,        \* the last result of serialize, with the lines it was joined from
    rawFrame,   \* the raw frame object the caller holds: its headers array is mutable
    call,       \* the arguments of the last Frame.fromRawFrame call, as they were given
    orig,       \* the constructor parameters the current frame/out/rawFrame derive from
    stage       \* how far the encode -> split -> decode chain of orig has come

vars == <<str, escaped, unEscaped, frame, out, rawFrame, call, orig, stage>>

-----------------------------------------------------------------------------
(* Bounds *)

MaxStrLen == 3      \* longest string handed to hdrValueEscape
MaxValLen == 2      \* longest caller-supplied header value
MaxBody == 2        \* longest body (characters of a text body, bytes of a binary one)
MaxHdrs == 2        \* most header lines of a raw frame

-----------------------------------------------------------------------------
(* Characters *)

BS == "\\"
CR == "cr"
LF == "lf"
TAB == "tab"
SP == " "
COLON == ":"
NUL == "nul"
EACUTE == "e-acute"
FFFD == "U+FFFD"
CONTENT_LENGTH == "content-length"

Undefined == << >>
Some(v) == <<v>>
IsDefined(o) == Len(o) = 1
Val(o) == o[1]

RECURSIVE Strings(_, _)
Strings(alphabet, n) ==
    IF n = 0 THEN {<< >>}
    ELSE LET shorter == Strings(alphabet, n - 1)
         IN  shorter \cup {Append(s, c) : s \in {t \in shorter : Len(t) = n - 1}, c \in alphabet}

-----------------------------------------------------------------------------
(* String.prototype.replace with a global (/g) pattern that is a literal:   *)
(* the matches are found left to right, without overlap, in the original.   *)
RECURSIVE ReplaceAll(_, _, _)
ReplaceAll(s, pat, rep) ==
    IF Len(s) < Len(pat) THEN s
    ELSE IF SubSeq(s, 1, Len(pat)) = pat
         THEN rep \o ReplaceAll(SubSeq(s, Len(pat) + 1, Len(s)), pat, rep)
         ELSE <<Head(s)>> \o ReplaceAll(Tail(s), pat, rep)

hdrValueEscape(s) ==
    ReplaceAll(ReplaceAll(ReplaceAll(ReplaceAll(s,
        <<BS>>, <<BS, BS>>),
        <<CR>>, <<BS, "r">>),
        <<LF>>, <<BS, "n">>),
        <<COLON>>, <<BS, "c">>)

hdrValueUnEscape(s) ==
    ReplaceAll(ReplaceAll(ReplaceAll(ReplaceAll(s,
        <<BS, "r">>, <<CR>>),
        <<BS, "n">>, <<LF>>),
        <<BS, "c">>, <<COLON>>),
        <<BS, BS>>, <<BS>>)

(* trim of fromRawFrame: str.replace(/^\s+|\s+$/g, '') *)
IsSpace(c) == c \in {SP, TAB, CR, LF}

RECURSIVE TrimLeft(_)
TrimLeft(s) == IF s # << >> /\ IsSpace(Head(s)) THEN TrimLeft(Tail(s)) ELSE s

RECURSIVE TrimRight(_)
TrimRight(s) ==
    IF s # << >> /\ IsSpace(s[Len(s)]) THEN TrimRight(SubSeq(s, 1, Len(s) - 1)) ELSE s

trim(s) == TrimRight(TrimLeft(s))

-----------------------------------------------------------------------------
(* TextEncoder / TextDecoder (UTF-8) on the characters of the model *)

Digits == <<"0", "1", "2", "3", "4", "5", "6", "7", "8", "9">>
DigitSet == {Digits[i] : i \in 1..10}
DigitValue(c) == (CHOOSE i \in 1..10 : Digits[i] = c) - 1

AsciiCode ==
    [c \in {NUL, TAB, LF, CR, SP, COLON, BS, "a", "b", "c", "h", "n", "r", "x", "y"} |->
        CASE c = NUL -> 0      [] c = TAB -> 9     [] c = LF -> 10    [] c = CR -> 13
          [] c = SP -> 32      [] c = COLON -> 58  [] c = BS -> 92    [] c = "a" -> 97
          [] c = "b" -> 98     [] c = "c" -> 99    [] c = "h" -> 104  [] c = "n" -> 110
          [] c = "r" -> 114    [] c = "x" -> 120   [] c = "y" -> 121]

Utf8(c) ==
    CASE c \in DOMAIN AsciiCode -> <<AsciiCode[c]>>
      [] c \in DigitSet -> <<48 + DigitValue(c)>>
      [] c = EACUTE -> <<195, 169>>
      [] c = FFFD -> <<239, 191, 189>>
      [] c = "SEND" -> <<83, 69, 78, 68>>
      [] c = "CONNECT" -> <<67, 79, 78, 78, 69, 67, 84>>
      [] c = "CONNECTED" -> <<67, 79, 78, 78, 69, 67, 84, 69, 68>>
      [] c = CONTENT_LENGTH ->
            <<99, 111, 110, 116, 101, 110, 116, 45, 108, 101, 110, 103, 116, 104>>

RECURSIVE TextEncode(_)
TextEncode(s) == IF s = << >> THEN << >> ELSE Utf8(Head(s)) \o TextEncode(Tail(s))

(* A byte that starts no well-formed sequence decodes to U+FFFD. *)
RECURSIVE TextDecode(_)
TextDecode(b) ==
    IF b = << >> THEN << >>
    ELSE IF Len(b) >= 2 /\ SubSeq(b, 1, 2) = <<195, 169>>
         THEN <<EACUTE>> \o TextDecode(SubSeq(b, 3, Len(b)))
    ELSE IF Len(b) >= 3 /\ SubSeq(b, 1, 3) = <<239, 191, 189>>
         THEN <<FFFD>> \o TextDecode(SubSeq(b, 4, Len(b)))
    ELSE IF \E c \in DOMAIN AsciiCode : AsciiCode[c] = b[1]
         THEN <<CHOOSE c \in DOMAIN AsciiCode : AsciiCode[c] = b[1]>> \o TextDecode(Tail(b))
    ELSE <<FFFD>> \o TextDecode(Tail(b))

(* "" + n for a non-negative integer n *)
RECURSIVE NumberToString(_)
NumberToString(n) ==
    IF n < 10 THEN <<Digits[n + 1]>>
    ELSE Append(NumberToString(n \div 10), Digits[(n % 10) + 1])

-----------------------------------------------------------------------------
(* Objects used as maps: the entries in Object.keys order, which is the     *)
(* integer-like keys in ascending order, then the others in insertion order *)

IsArrayIndex(k) ==
    /\ k # << >>
    /\ \A i \in 1..Len(k) : k[i] \in DigitSet
    /\ (Len(k) = 1 \/ k[1] # "0")

RECURSIVE ArrayIndexValue(_)
ArrayIndexValue(k) ==
    IF k = << >> THEN 0
    ELSE 10 * ArrayIndexValue(SubSeq(k, 1, Len(k) - 1)) + DigitValue(k[Len(k)])

ObjectKeys(obj) == [i \in 1..Len(obj) |-> obj[i][1]]
HasKey(obj, k) == \E i \in 1..Len(obj) : obj[i][1] = k
Get(obj, k) == obj[CHOOSE i \in 1..Len(obj) : obj[i][1] = k][2]

(* obj[k] = v *)
Set(obj, k, v) ==
    IF HasKey(obj, k)
    THEN [i \in 1..Len(obj) |-> IF obj[i][1] = k THEN <<k, v>> ELSE obj[i]]
    ELSE IF IsArrayIndex(k)
    THEN LET before == SelectSeq(obj, LAMBDA e :
                           IsArrayIndex(e[1]) /\ ArrayIndexValue(e[1]) < ArrayIndexValue(k))
             after == SelectSeq(obj, LAMBDA e :
                           ~(IsArrayIndex(e[1]) /\ ArrayIndexValue(e[1]) < ArrayIndexValue(k)))
         IN  before \o <<<<k, v>>>> \o after
    ELSE Append(obj, <<k, v>>)

(* delete obj[k] *)
Delete(obj, k) == SelectSeq(obj, LAMBDA e : e[1] # k)

(* Object.assign(target, source) *)
RECURSIVE ObjectAssign(_, _)
ObjectAssign(target, source) ==
    IF source = << >> THEN target
    ELSE ObjectAssign(Set(target, Head(source)[1], Head(source)[2]), Tail(source))

(* the loop of fromRawFrame walking the header lines as they come *)
ArrayReverse_NotReversed(a) == a

(* Array.prototype.reverse: the array itself ends up reversed *)
ArrayReverse(a) == [i \in 1..Len(a) |-> a[Len(a) + 1 - i]]

-----------------------------------------------------------------------------
(* Frame *)

(* The constructor. params.body and params.binaryBody may be undefined. *)
Frame(params) ==
    [command |-> params.command,
     headers |-> ObjectAssign(<< >>, params.headers),
     _body |-> IF IsDefined(params.binaryBody) THEN Undefined
               ELSE IF IsDefined(params.body) /\ Val(params.body) # << >>
                    THEN params.body ELSE Some(<< >>),
     _binaryBody |-> IF IsDefined(params.binaryBody) THEN params.binaryBody ELSE Undefined,
     isBinaryBody |-> IsDefined(params.binaryBody),
     escapeHeaderValues |-> params.escapeHeaderValues,
     skipContentLengthHeader |-> params.skipContentLengthHeader]

(* !f._body: undefined or the empty string *)
BodyIsFalsy(f) == ~IsDefined(f._body) \/ Val(f._body) = << >>

(* get body(): the frame after the call; the value returned is its _body *)
body(f) ==
    IF BodyIsFalsy(f) /\ f.isBinaryBody
    THEN [f EXCEPT !._body = Some(TextDecode(Val(f._binaryBody)))]
    ELSE f

(* get binaryBody(): the frame after the call; the value returned is its _binaryBody *)
binaryBody(f) ==
    IF ~IsDefined(f._binaryBody) /\ ~f.isBinaryBody
    THEN [f EXCEPT !._binaryBody = Some(TextEncode(Val(f._body)))]
    ELSE f

(* the length of the text instead of that of its bytes *)
bodyLength_Characters(f) ==
    IF f.isBinaryBody THEN Len(Val(f._binaryBody)) ELSE Len(Val(f._body))

bodyLength(f) ==
    LET b == binaryBody(f)._binaryBody
    IN  IF IsDefined(b) THEN Len(Val(b)) ELSE 0

isBodyEmpty(f) == bodyLength(f) = 0

-----------------------------------------------------------------------------
(* serializeCmdAndHeaders and serialize *)

(* without the delete *)
HeadersToSend_NothingDeleted(f) == f.headers

(* if (this.skipContentLengthHeader) delete this.headers['content-length'] *)
HeadersToSend(f) ==
    IF f.skipContentLengthHeader THEN Delete(f.headers, <<CONTENT_LENGTH>>) ELSE f.headers

(* without the exemption of CONNECTED *)
EscapeApplies_ConnectOnly(f) ==
    f.escapeHeaderValues /\ f.command # <<"CONNECT">>

EscapeApplies(f) ==
    f.escapeHeaderValues /\ f.command # <<"CONNECT">> /\ f.command # <<"CONNECTED">>

HeaderLine(f, entry) ==
    IF EscapeApplies(f)
    THEN entry[1] \o <<COLON>> \o hdrValueEscape(entry[2])
    ELSE entry[1] \o <<COLON>> \o entry[2]

(* omitted only if the body is empty and the flag is set *)
AddsContentLength_UnlessEmptyAndSkipped(f) ==
    f.isBinaryBody \/ ~(isBodyEmpty(f) /\ f.skipContentLengthHeader)

AddsContentLength(f) ==
    f.isBinaryBody \/ (~isBodyEmpty(f) /\ ~f.skipContentLengthHeader)

ContentLengthLine(f) == <<CONTENT_LENGTH, COLON>> \o NumberToString(bodyLength(f))

(* the array `lines` as it is when it is joined *)
Lines(f) ==
    LET hs == HeadersToSend(f)
    IN  <<f.command>>
        \o [i \in 1..Len(hs) |-> HeaderLine(f, hs[i])]
        \o (IF AddsContentLength(f) THEN <<ContentLengthLine(f)>> ELSE << >>)

(* Array.prototype.join *)
RECURSIVE Join(_, _)
Join(a, sep) ==
    IF a = << >> THEN << >>
    ELSE IF Len(a) = 1 THEN a[1]
    ELSE a[1] \o sep \o Join(Tail(a), sep)

serializeCmdAndHeaders(f) == Join(Lines(f), <<LF>>) \o <<LF>> \o <<LF>>

(* the frame after serializeCmdAndHeaders: the deleted header, the cached bytes *)
AfterSerialize(f) ==
    LET sent == [f EXCEPT !.headers = HeadersToSend(f)]
    IN  IF f.isBinaryBody THEN sent ELSE binaryBody(sent)

toUnit8Array(cmdAndHeaders, bytes) == TextEncode(cmdAndHeaders) \o bytes \o <<0>>

serialize(f) ==
    IF f.isBinaryBody
    THEN toUnit8Array(serializeCmdAndHeaders(f), Val(f._binaryBody))
    ELSE serializeCmdAndHeaders(f) \o Val(f._body) \o <<NUL>>

-----------------------------------------------------------------------------
(* Frame.fromRawFrame *)

UnEscapeApplies(command, escapeHeaderValues) ==
    escapeHeaderValues /\ command # <<"CONNECT">> /\ command # <<"CONNECTED">>

DecodedValue(command, escapeHeaderValues, raw) ==
    IF UnEscapeApplies(command, escapeHeaderValues)
    THEN hdrValueUnEscape(trim(raw))
    ELSE trim(raw)

(* the loop running from the last element to the first *)
RECURSIVE DecodeHeaders_Backwards(_, _, _, _)
DecodeHeaders_Backwards(headers, lines, command, escapeHeaderValues) ==
    IF lines = << >> THEN headers
    ELSE DecodeHeaders_Backwards(
            Set(headers, trim(lines[Len(lines)][1]),
                DecodedValue(command, escapeHeaderValues, lines[Len(lines)][2])),
            SubSeq(lines, 1, Len(lines) - 1), command, escapeHeaderValues)

(* the loop over the (reversed) header lines: headers[key] = value *)
RECURSIVE DecodeHeaders(_, _, _, _)
DecodeHeaders(headers, lines, command, escapeHeaderValues) ==
    IF lines = << >> THEN headers
    ELSE DecodeHeaders(
            Set(headers, trim(Head(lines)[1]),
                DecodedValue(command, escapeHeaderValues, Head(lines)[2])),
            Tail(lines), command, escapeHeaderValues)

fromRawFrame(raw, escapeHeaderValues) ==
    Frame([command |-> raw.command,
           headers |-> DecodeHeaders(<< >>, ArrayReverse(raw.headers),
                                     raw.command, escapeHeaderValues),
           body |-> Undefined,
           binaryBody |-> Some(raw.binaryBody),
           escapeHeaderValues |-> escapeHeaderValues,
           skipContentLengthHeader |-> FALSE])

(* the raw frame after the call: rawFrame.headers.reverse() reverses it in place *)
AfterFromRawFrame(raw) == [raw EXCEPT !.headers = ArrayReverse(raw.headers)]

-----------------------------------------------------------------------------
(* The splitter of the transport layer, which turns the text on the wire    *)
(* into a raw frame: the command line, the header lines up to the empty     *)
(* line, each cut at its first colon, and the body up to the final null.    *)

RECURSIVE IndexOf(_, _, _)
IndexOf(s, pat, from) ==
    IF from + Len(pat) - 1 > Len(s) THEN 0
    ELSE IF SubSeq(s, from, from + Len(pat) - 1) = pat THEN from
    ELSE IndexOf(s, pat, from + 1)

RECURSIVE SplitOn(_, _)
SplitOn(s, sep) ==
    LET i == IndexOf(s, <<sep>>, 1)
    IN  IF i = 0 THEN <<s>>
        ELSE <<SubSeq(s, 1, i - 1)>> \o SplitOn(SubSeq(s, i + 1, Len(s)), sep)

HeaderPair(line) ==
    LET i == IndexOf(line, <<COLON>>, 1)
    IN  IF i = 0 THEN <<line, << >> >>
        ELSE <<SubSeq(line, 1, i - 1), SubSeq(line, i + 1, Len(line))>>

Split(text) ==
    LET blank == IndexOf(text, <<LF, LF>>, 1)
        block == SplitOn(SubSeq(text, 1, blank - 1), LF)
        rest == SubSeq(text, blank + 2, Len(text) - 1)
    IN  [command |-> Head(block),
         headers |-> [i \in 1..(Len(block) - 1) |-> HeaderPair(block[i + 1])],
         binaryBody |-> TextEncode(rest)]

-----------------------------------------------------------------------------
(* The inputs *)

Commands == {<<"CONNECT">>, <<"CONNECTED">>, <<"SEND">>}

EscapeAlphabet == {BS, CR, LF, COLON, "n", "r", "c"}
EscapeInputs == Strings(EscapeAlphabet, MaxStrLen)

HeaderKeys == {<<"a">>, <<CONTENT_LENGTH>>}
PlainValues == {<<"n">>, <<"7">>}
HeaderValues == Strings({BS, COLON, "n"}, MaxValLen)

(* the objects a caller can pass as headers: distinct keys, in any order *)
HeaderObjects(keys, values) ==
    {<< >>}
    \cup {<<<<k, v>>>> : k \in keys, v \in values}
    \cup {<<<<k[1], v[1]>>, <<k[2], v[2]>>>> :
            k \in {kk \in keys \X keys : kk[1] # kk[2]}, v \in values \X values}

TextBodies == Strings({"h", EACUTE}, MaxBody)
BinaryBodies == Strings({104, 195, 169}, MaxBody)

BodyParams ==
    {[body |-> Undefined, binaryBody |-> Undefined]}
    \cup {[body |-> Some(s), binaryBody |-> Undefined] : s \in TextBodies}
    \cup {[body |-> Undefined, binaryBody |-> Some(b)] : b \in BinaryBodies}

Params(command, headers, bodyParam, escape, skip) ==
    [command |-> command, headers |-> headers,
     body |-> bodyParam.body, binaryBody |-> bodyParam.binaryBody,
     escapeHeaderValues |-> escape, skipContentLengthHeader |-> skip]

(* every body with headers of plain values, and every header value on its own *)
FrameParams ==
    {Params(c, h, b, e, s) :
        c \in Commands, h \in HeaderObjects(HeaderKeys, PlainValues),
        b \in BodyParams, e \in BOOLEAN, s \in BOOLEAN}
    \cup
    {Params(c, <<<<k, v>>>>, [body |-> Some(<< >>), binaryBody |-> Undefined], e, s) :
        c \in Commands, k \in HeaderKeys, v \in HeaderValues,
        e \in BOOLEAN, s \in BOOLEAN}

RawKeys == {<<"a">>, <<SP, "a">>, <<"b">>, <<"1">>}
RawValues == {<<"x">>, <<"y", SP>>, <<BS, "c">>}
RawBodies == {<< >>, <<104>>}

RECURSIVE Lists(_, _)
Lists(elements, n) ==
    IF n = 0 THEN {<< >>}
    ELSE LET shorter == Lists(elements, n - 1)
         IN  shorter \cup {Append(l, e) : l \in {m \in shorter : Len(m) = n - 1}, e \in elements}

RawFrames ==
    {[command |-> c, headers |-> h, binaryBody |-> b] :
        c \in Commands, h \in Lists(RawKeys \X RawValues, MaxHdrs), b \in RawBodies}

-----------------------------------------------------------------------------
(* The header value escaping on its own *)

InitEscape ==
    /\ str \in EscapeInputs
    /\ escaped = Undefined
    /\ unEscaped = Undefined
    /\ frame = Undefined
    /\ out = Undefined
    /\ rawFrame = Undefined
    /\ call = Undefined
    /\ orig = Undefined
    /\ stage = "none"

Escape ==
    /\ ~IsDefined(escaped)
    /\ escaped' = Some(hdrValueEscape(str))
    /\ UNCHANGED <<str, unEscaped, frame, out, rawFrame, call, orig, stage>>

UnEscape ==
    /\ IsDefined(escaped)
    /\ ~IsDefined(unEscaped)
    /\ unEscaped' = Some(hdrValueUnEscape(Val(escaped)))
    /\ UNCHANGED <<str, escaped, frame, out, rawFrame, call, orig, stage>>

NextEscape == Escape \/ UnEscape

SpecEscape == InitEscape /\ [][NextEscape]_vars

-----------------------------------------------------------------------------
(* The frames *)

(* new Frame(params), held by the caller *)
InitFrame(params) ==
    /\ frame = Some(Frame(params))
    /\ orig = Some(params)
    /\ stage = "constructed"
    /\ rawFrame = Undefined

(* a raw frame handed over by the transport *)
InitRawFrame(raw) ==
    /\ frame = Undefined
    /\ orig = Undefined
    /\ stage = "none"
    /\ rawFrame = Some(raw)

Init ==
    /\ str = << >>
    /\ escaped = Undefined
    /\ unEscaped = Undefined
    /\ out = Undefined
    /\ call = Undefined
    /\ \/ \E params \in FrameParams : InitFrame(params)
       \/ \E raw \in RawFrames : InitRawFrame(raw)

(* what serialize returned, the lines it joined, and the frame it was called on *)
Output(f) == [of |-> f, lines |-> Lines(f), data |-> serialize(f)]

(* Frame.marshall(params): a frame of its own, local to the call *)
Marshall ==
    /\ stage = "constructed"
    /\ out' = Some(Output(Frame(Val(orig))))
    /\ stage' = "serialized"
    /\ frame' = Undefined
    /\ UNCHANGED <<str, escaped, unEscaped, rawFrame, call, orig>>

(* frame.serialize() *)
Serialize ==
    /\ IsDefined(frame)
    /\ out' = Some(Output(Val(frame)))
    /\ frame' = Some(AfterSerialize(Val(frame)))
    /\ stage' = IF stage \in {"constructed", "serialized"} THEN "serialized" ELSE "none"
    /\ orig' = IF stage \in {"constructed", "serialized"} THEN orig ELSE Undefined
    /\ UNCHANGED <<str, escaped, unEscaped, rawFrame, call>>

(* frame.body *)
GetBody ==
    /\ IsDefined(frame)
    /\ frame' = Some(body(Val(frame)))
    /\ UNCHANGED <<str, escaped, unEscaped, out, rawFrame, call, orig, stage>>

(* frame.binaryBody *)
GetBinaryBody ==
    /\ IsDefined(frame)
    /\ frame' = Some(binaryBody(Val(frame)))
    /\ UNCHANGED <<str, escaped, unEscaped, out, rawFrame, call, orig, stage>>

(* the transport splits the text that was sent *)
SplitOutput ==
    /\ IsDefined(out)
    /\ ~Val(out).of.isBinaryBody
    /\ rawFrame' = Some(Split(Val(out).data))
    /\ stage' = IF stage = "serialized" THEN "split" ELSE "none"
    /\ orig' = IF stage = "serialized" THEN orig ELSE Undefined
    /\ frame' = Undefined
    /\ out' = Undefined
    /\ call' = Undefined
    /\ UNCHANGED <<str, escaped, unEscaped>>

(* Frame.fromRawFrame(rawFrame, escapeHeaderValues) *)
FromRawFrame(escapeHeaderValues) ==
    /\ IsDefined(rawFrame)
    /\ call' = Some([rawFrame |-> Val(rawFrame), escapeHeaderValues |-> escapeHeaderValues])
    /\ frame' = Some(fromRawFrame(Val(rawFrame), escapeHeaderValues))
    /\ rawFrame' = Some(AfterFromRawFrame(Val(rawFrame)))
    /\ out' = Undefined
    /\ LET chained == stage = "split" /\ escapeHeaderValues = Val(orig).escapeHeaderValues
       IN  /\ stage' = IF chained THEN "decoded" ELSE "none"
           /\ orig' = IF chained THEN orig ELSE Undefined
    /\ UNCHANGED <<str, escaped, unEscaped>>

Next ==
    \/ Marshall
    \/ Serialize
    \/ GetBody
    \/ GetBinaryBody
    \/ SplitOutput
    \/ \E escapeHeaderValues \in BOOLEAN : FromRawFrame(escapeHeaderValues)

Spec == Init /\ [][Next]_vars

-----------------------------------------------------------------------------
(* What the properties below speak about *)

IsContentLengthLine(line) ==
    Len(line) >= 2 /\ line[1] = CONTENT_LENGTH /\ line[2] = COLON

(* the header lines of a serialization: all lines but the command line *)
HeaderLines(o) == Tail(o.lines)

ContentLengthLines(o) ==
    {i \in 1..Len(HeaderLines(o)) : IsContentLengthLine(HeaderLines(o)[i])}

(* the entries of the caller's headers that serialization does not delete *)
KeptHeaders(f) ==
    SelectSeq(f.headers,
              LAMBDA e : ~(f.skipContentLengthHeader /\ e[1] = <<CONTENT_LENGTH>>))

(* a line was appended after the lines of the headers, and it is a content-length line *)
AppendsContentLength(o) ==
    /\ Len(HeaderLines(o)) = Len(KeptHeaders(o.of)) + 1
    /\ IsContentLengthLine(o.lines[Len(o.lines)])

HasTextBody(f) == ~f.isBinaryBody
TextBodyEmpty(f) == HasTextBody(f) /\ Val(f._body) = << >>

(* the number of bytes of the body: of its UTF-8 encoding if it is text *)
BodyBytes(f) == IF f.isBinaryBody THEN Val(f._binaryBody) ELSE TextEncode(Val(f._body))

Exempt(command) == command \in {<<"CONNECT">>, <<"CONNECTED">>}

(* a map as the set of its entries, without the derived content-length *)
Mapping(headers) ==
    {headers[i] : i \in {j \in 1..Len(headers) : headers[j][1] # <<CONTENT_LENGTH>>}}

(* the header lines a call of fromRawFrame was given, and their trimmed keys *)
Given == Val(call).rawFrame.headers
GivenKey(i) == trim(Given[i][1])
FirstOccurrence(k) == CHOOSE i \in 1..Len(Given) :
    GivenKey(i) = k /\ \A j \in 1..(i - 1) : GivenKey(j) # k
DistinctGivenKeys == \A i, j \in 1..Len(Given) : i # j => GivenKey(i) # GivenKey(j)

-----------------------------------------------------------------------------
(* C1: unescaping the escaped form of a string gives the string back, for   *)
(* every string over backslash, CR, LF, colon and the letters n, r, c.      *)
C1_EscapeRoundTrip == IsDefined(unEscaped) => Val(unEscaped) = str

(* C2: a frame with a text body that is serialized, split and decoded under *)
(* the same escapeHeaderValues flag comes back with the same command, the   *)
(* same header mapping (content-length aside) and the same body text.       *)
C2_RoundTrip ==
    (stage = "decoded" /\ HasTextBody(Frame(Val(orig)))) =>
        LET sent == Frame(Val(orig))
            got == Val(frame)
        IN  /\ got.command = sent.command
            /\ Mapping(got.headers) = Mapping(sent.headers)
            /\ Val(body(got)._body) = Val(sent._body)

(* C3: fromRawFrame maps every key of the header lines it is given to the   *)
(* (trimmed, unescaped where that applies) value of the first line, in the  *)
(* order given, that has this key after trimming.                           *)
C3_FirstOccurrenceWins ==
    IsDefined(call) =>
        \A i \in 1..Len(Given) :
            /\ HasKey(Val(frame).headers, GivenKey(i))
            /\ Get(Val(frame).headers, GivenKey(i)) =
                   DecodedValue(Val(call).rawFrame.command, Val(call).escapeHeaderValues,
                                Given[FirstOccurrence(GivenKey(i))][2])

C3_Witness ==
    /\ IsDefined(call)
    /\ \E i, j \in 1..Len(Given) :
          /\ i < j
          /\ GivenKey(i) = GivenKey(j)
          /\ Given[i][1] # Given[j][1]
          /\ trim(Given[i][2]) # trim(Given[j][2])
          /\ Get(Val(frame).headers, GivenKey(i)) = trim(Given[i][2])

(* C4, as claimed: a content-length line is appended for every frame but    *)
(* the one with an empty text body and skipContentLengthHeader set.         *)
C4_AppendedUnlessEmptyAndSkipped ==
    IsDefined(out) =>
        (AppendsContentLength(Val(out)) <=>
            ~(TextBodyEmpty(Val(out).of) /\ Val(out).of.skipContentLengthHeader))

(* C4, amended: a content-length line is appended exactly when the body is  *)
(* binary, or is a non-empty text and skipContentLengthHeader is not set.   *)
C4_AppendedForBinaryOrUnskippedText ==
    IsDefined(out) =>
        (AppendsContentLength(Val(out)) <=>
            \/ Val(out).of.isBinaryBody
            \/ (~TextBodyEmpty(Val(out).of) /\ ~Val(out).of.skipContentLengthHeader))

C4_Witness ==
    /\ IsDefined(out)
    /\ HasTextBody(Val(out).of)
    /\ ~TextBodyEmpty(Val(out).of)
    /\ Val(out).of.skipContentLengthHeader
    /\ ~AppendsContentLength(Val(out))

(* C5: a header value is escaped when it is serialized, and unescaped when  *)
(* it is decoded, if and only if escapeHeaderValues is set and the command  *)
(* is neither CONNECT nor CONNECTED; otherwise it goes to the wire as it is *)
(* and is decoded to the trimmed raw value.                                 *)
C5_EscapedIffFlagAndNotExempt ==
    /\ IsDefined(out) =>
          LET f == Val(out).of
              kept == KeptHeaders(f)
          IN  \A i \in 1..Len(kept) :
                  HeaderLines(Val(out))[i] =
                      kept[i][1] \o <<COLON>> \o
                      (IF f.escapeHeaderValues /\ ~Exempt(f.command)
                       THEN hdrValueEscape(kept[i][2]) ELSE kept[i][2])
    /\ IsDefined(call) =>
          \A e \in {Val(frame).headers[i] : i \in 1..Len(Val(frame).headers)} :
              \E i \in 1..Len(Given) :
                  /\ GivenKey(i) = e[1]
                  /\ e[2] = IF Val(call).escapeHeaderValues
                               /\ ~Exempt(Val(call).rawFrame.command)
                            THEN hdrValueUnEscape(trim(Given[i][2]))
                            ELSE trim(Given[i][2])

(* a CONNECTED frame, decoded and serialized with the flag set, keeps its \c *)
C5_Witness ==
    /\ IsDefined(call)
    /\ IsDefined(out)
    /\ Val(call).escapeHeaderValues
    /\ Val(out).of.command = <<"CONNECTED">>
    /\ \E i \in 1..Len(Given) : Given[i] = <<<<"a">>, <<BS, "c">>>>
    /\ Get(Val(frame).headers, <<"a">>) = <<BS, "c">>
    /\ \E i \in 1..Len(HeaderLines(Val(out))) :
          HeaderLines(Val(out))[i] = <<"a", COLON, BS, "c">>

(* C6: the value of an appended content-length line is the number of bytes  *)
(* of the body: of the UTF-8 encoding of a text body, of the array of a     *)
(* binary one, 0 for an array of length 0.                                  *)
C6_ContentLengthIsByteLength ==
    (IsDefined(out) /\ AppendsContentLength(Val(out))) =>
        Val(out).lines[Len(Val(out).lines)] =
            <<CONTENT_LENGTH, COLON>> \o NumberToString(Len(BodyBytes(Val(out).of)))

(* a text body whose byte count is not its character count *)
C6_Witness ==
    /\ IsDefined(out)
    /\ AppendsContentLength(Val(out))
    /\ HasTextBody(Val(out).of)
    /\ Len(BodyBytes(Val(out).of)) > Len(Val(Val(out).of._body))

(* C7: the text a frame with skipContentLengthHeader set and an empty text  *)
(* body serializes to has no content-length line, whatever its headers.     *)
C7_NoContentLengthWhenSkippedAndEmpty ==
    (IsDefined(out) /\ Val(out).of.skipContentLengthHeader /\ TextBodyEmpty(Val(out).of)) =>
        /\ ContentLengthLines(Val(out)) = {}
        /\ IndexOf(Val(out).data, <<LF, CONTENT_LENGTH, COLON>>, 1) = 0

C7_Witness ==
    /\ IsDefined(out)
    /\ Val(out).of.skipContentLengthHeader
    /\ TextBodyEmpty(Val(out).of)
    /\ HasKey(Val(out).of.headers, <<CONTENT_LENGTH>>)
    /\ Len(Val(out).of.headers) = 2

(* C8: fromRawFrame leaves the header lines of the raw frame it is given as *)
(* they were: the same elements in the same order.                          *)
C8_InputUnchanged ==
    IsDefined(call) => Val(rawFrame).headers = Given

(* C9: a serialization has at most one content-length line, and the value   *)
(* of one that is there is the byte length of the body.                     *)
C9_OneExactContentLength ==
    IsDefined(out) =>
        /\ Cardinality(ContentLengthLines(Val(out))) <= 1
        /\ \A i \in ContentLengthLines(Val(out)) :
              HeaderLines(Val(out))[i] =
                  <<CONTENT_LENGTH, COLON>> \o NumberToString(Len(BodyBytes(Val(out).of)))

(* C10, as claimed: with pairwise distinct keys the decoded frame has its   *)
(* headers in the order of the header lines, and serializes them so.        *)
C10_OrderPreserved ==
    (IsDefined(call) /\ DistinctGivenKeys) =>
        /\ ObjectKeys(Val(frame).headers) = [i \in 1..Len(Given) |-> GivenKey(i)]
        /\ IsDefined(out) =>
              \A i \in 1..Len(Given) :
                  SubSeq(HeaderLines(Val(out))[i], 1, Len(GivenKey(i)) + 1) =
                      GivenKey(i) \o <<COLON>>

(* C10, amended: with pairwise distinct trimmed keys, none of them an array *)
(* index, the decoded frame has its headers in the reverse of the order of  *)
(* the header lines it was given, and serializes them in that reverse order.*)
C10_OrderReversed ==
    (IsDefined(call) /\ DistinctGivenKeys
        /\ \A i \in 1..Len(Given) : ~IsArrayIndex(GivenKey(i))) =>
        LET n == Len(Given)
        IN  /\ ObjectKeys(Val(frame).headers) = [i \in 1..n |-> GivenKey(n + 1 - i)]
            /\ IsDefined(out) =>
                  \A i \in 1..n :
                      SubSeq(HeaderLines(Val(out))[i], 1, Len(GivenKey(n + 1 - i)) + 1) =
                          GivenKey(n + 1 - i) \o <<COLON>>

C10_Witness ==
    /\ IsDefined(call)
    /\ IsDefined(out)
    /\ Len(Given) >= 2
    /\ DistinctGivenKeys
    /\ \A i \in 1..Len(Given) : ~IsArrayIndex(GivenKey(i))
    /\ Val(out).of = Val(frame)

====
